---- MODULE Spec2Model ----
(***************************************************************************)
(* Routing core of the Molecular synthesizer: the AudioEngine class of     *)
(* services/audioEngine.ts (the revision with triggerDisturbance).  The    *)
(* model keeps the engine's registry (nodes) and the part of the host's    *)
(* Web Audio graph that the engine wires: which output terminals feed the  *)
(* master gain, which feed another node's input terminal, and the gain     *)
(* elements created for frequency modulation.                              *)
(*                                                                         *)
(* Every create call builds fresh host objects, so a terminal is named by  *)
(* an instance <<id, n>>: the n-th instance built under that id.  A wire   *)
(* made from or to an instance stays in the host graph until some call     *)
(* disconnects it, whether or not the instance is still registered.        *)
(***************************************************************************)
EXTENDS Integers, Sequences, FiniteSets, TLC

\* ---- bounds -------------------------------------------------------------
MaxIds == 3
MaxSteps == 4
\* the engine with parameters and disturbances: ids and calls
MaxNodes == 2
MaxCalls == 3
\* the application: handlers run
MaxActs == 5
\* patch documents: documents replayed in a run
MaxLoads == 2
\* sample-hold under the clock: milliseconds rendered
MaxTime == 10600

\* ---- program constants --------------------------------------------------
ModDepth == 400

\* Parameter values are kept in thousandths (0.1 is 100, 440 Hz is 440000)
\* and times in milliseconds.
FallbackFreq == 440000         \* updateOscType: frequency when none is held
FallbackGain == 100            \* updateOscType: gain when none is held
VoiceLife == 100               \* triggerDisturbance: stop(now + 0.1)
DetuneReturn == 50             \* triggerDisturbance: detune back at now + 0.05
CutoffReturn == 40             \* triggerDisturbance: cutoff back at now + 0.04
CentsPerVelocity == 200000     \* triggerDisturbance: -velocityY * 200 cents

Ids == 1..MaxIds

\* subtypes the create calls are driven with
OscIn == {"sine", "noise"}
FxIn == {"filter-lp", "phaser"}

\* frequency and gain the application creates a generator with
FreqIn == 220000
GainIn == 400

VARIABLES ctx, nodes, gen, masterWires, audioWires, elems, mainWires, voices,
          params, shapers, sparks, now, host, holds, masterGain, isMuted,
          connections, pre, steps, limit

vars ==
  <<ctx, nodes, gen, masterWires, audioWires, elems, mainWires, voices,
    params, shapers, sparks, now, host, holds, masterGain, isMuted,
    connections, pre, steps, limit>>

\* ---- the registry entry -------------------------------------------------
NoMods == [t \in Ids |-> 0]

NoNode ==
  [type |-> "none", input |-> FALSE, inst |-> 0, modGains |-> NoMods,
   outgoingSignalConnections |-> {}, isAudiblePreference |-> FALSE]

\* params table built by createOscillator
OscParams(type) ==
  IF type \in {"noise", "sample-hold"} THEN {"frequency", "gain"}
  ELSE {"frequency", "gain", "detune"}

\* params table built by createEffect
FxParams(type) ==
  CASE type \in {"filter-lp", "filter-hp", "filter-bp"} ->
         {"cutoff", "resonance"}
    [] type = "delay" -> {"time", "feedback"}
    [] type = "distortion" -> {"amount"}
    [] type = "bitcrusher" -> {"bits"}
    [] type = "phaser" -> {"speed", "depth"}
    [] type = "chorus" -> {"speed", "intensity"}
    [] type = "tremolo" -> {"rate", "intensity"}
    [] type = "reverb" -> {"diffusion"}
    [] OTHER -> {}

Params(n) == IF n.input THEN FxParams(n.type) ELSE OscParams(n.type)

\* param instanceof AudioParam: every entry is a host handle except the
\* literal {value} holders of the noise and sample-hold generators
IsAudioParam(n, name) ==
  /\ name \in Params(n)
  /\ ~(~n.input /\ n.type \in {"noise", "sample-hold"} /\ name = "frequency")

\* ---- parameter entries ---------------------------------------------------
\* One entry of a node's params table.  kind "audio" is a host AudioParam:
\* value is what its value getter returns now, events the automation events
\* not yet rendered, in time order.  kind "literal" is a plain {value} holder.
NoParam == [kind |-> "none", value |-> 0, events |-> <<>>]

\* a params table maps the names it holds to their entries
NoParams == [p \in {} |-> NoParam]

\* table[name], undefined in the code when the table lacks the name
Entry(table, name) == IF name \in DOMAIN table THEN table[name] ELSE NoParam

Audio(v) == [kind |-> "audio", value |-> v, events |-> <<>>]

Literal(v) == [kind |-> "literal", value |-> v, events |-> <<>>]

\* insert an automation event after the events that are not later than it
Schedule(p, ev) ==
  LET k == Cardinality({i \in DOMAIN p.events : p.events[i].t <= ev.t})
  IN [p EXCEPT !.events =
        SubSeq(@, 1, k) \o <<ev>> \o SubSeq(@, k + 1, Len(@))]

\* AudioParam.setTargetAtTime(v, t, timeConstant): the approach to v is
\* taken as complete when the event is rendered
setTargetAtTime(p, v, t) == Schedule(p, [t |-> t, v |-> v])

\* AudioParam.cancelScheduledValues(t)
IsBefore(ev, t) == ev.t < t

cancelScheduledValues(p, t) ==
  [p EXCEPT !.events =
     SubSeq(@, 1, Cardinality({i \in DOMAIN @ : IsBefore(@[i], t)}))]

\* the host renders up to time t: the events due by t take effect in order
Rendered(p, t) ==
  LET due == {i \in DOMAIN p.events : p.events[i].t <= t}
      k == Cardinality(due)
  IN IF k = 0 THEN p
     ELSE [p EXCEPT !.value = p.events[k].v,
                    !.events = SubSeq(@, k + 1, Len(@))]

\* the initial values createEffect assigns to the entries of its table
FxDefault(type, name) ==
  CASE name = "cutoff" -> 1000000
    [] name = "resonance" -> 1000
    [] name = "time" -> 500
    [] name = "feedback" -> 400
    [] name = "amount" -> 800
    [] name = "bits" -> 1000
    [] name = "speed" ->
         IF type = "phaser" THEN 500 ELSE 1500
    [] name = "depth" -> 500000
    [] name = "intensity" ->
         IF type = "chorus" THEN 2 ELSE 500
    [] name = "rate" -> 4000
    [] name = "diffusion" -> 800
    [] OTHER -> 0

\* extraNodes.shaper and the amount its curve was computed from
NoShaper == [curve |-> "none", amount |-> 0]

FxShaper(type) ==
  CASE type = "distortion" -> [curve |-> "distortion", amount |-> 100000]
    [] type = "bitcrusher" -> [curve |-> "bitcrush", amount |-> 8000]
    [] OTHER -> NoShaper

\* lastStepTime and currentValue in the closure of a sample-hold
\* generator's onaudioprocess, as createOscillator initialises them
NoHold == [lastStepTime |-> 0, currentValue |-> 0]

\* ---- the engine state as one value, for composing the methods -----------
Cur ==
  [ctx |-> ctx, nodes |-> nodes, gen |-> gen, masterWires |-> masterWires,
   audioWires |-> audioWires, elems |-> elems, mainWires |-> mainWires,
   voices |-> voices, params |-> params, shapers |-> shapers,
   sparks |-> sparks, now |-> now, host |-> host, holds |-> holds,
   masterGain |-> masterGain, isMuted |-> isMuted]

Has(s, id) == s.nodes[id].type # "none"

Out(s, id) == <<id, s.nodes[id].inst>>

\* new AudioContext() in init(): the host has no context to give, and the
\* constructor call, which no try encloses, throws before this.ctx is
\* assigned
initThrows(s) == ~s.ctx /\ ~s.host

\* init() as it would be without the test of this.ctx: a new context and a
\* new master gain at every call, to which nothing is connected yet
initOnEveryCall(s) ==
  IF ~s.ctx /\ ~s.host THEN s
  ELSE [s EXCEPT !.ctx = TRUE, !.masterGain = Audio(0), !.masterWires = {}]

\* init(): build the context and the master gain once; the gain of the
\* master gain is set to 0 (masterGain.gain.setValueAtTime(0, currentTime))
initOn(s) ==
  IF s.ctx \/ initThrows(s) THEN s
  ELSE [s EXCEPT !.ctx = TRUE, !.masterGain = Audio(0)]

\* the level of the master gain when not muted, in thousandths
MasterLevel == 300

\* setMasterMute(muted): the flag is kept in any case, the gain approaches
\* its target only if the master gain exists
setMasterMuteOn(s, muted) ==
  LET s1 == [s EXCEPT !.isMuted = muted]
  IN IF ~s.ctx THEN s1
     ELSE [s1 EXCEPT !.masterGain =
             setTargetAtTime(@, IF muted THEN 0 ELSE MasterLevel, s.now)]

\* updateAudible as it would be without the check that the node exists
updateAudibleOnUnchecked(s, id, isAudible) ==
  IF ~s.ctx THEN s
  ELSE LET mw == s.masterWires \ {Out(s, id)}
       IN [s EXCEPT
             !.nodes[id].isAudiblePreference = isAudible,
             !.masterWires =
                IF isAudible /\ s.nodes[id].outgoingSignalConnections = {}
                THEN mw \cup {Out(s, id)} ELSE mw]

updateAudibleOn(s, id, isAudible) ==
  IF ~Has(s, id) \/ ~s.ctx THEN s
  ELSE LET mw == s.masterWires \ {Out(s, id)}
       IN [s EXCEPT
             !.nodes[id].isAudiblePreference = isAudible,
             !.masterWires =
                IF isAudible /\ s.nodes[id].outgoingSignalConnections = {}
                THEN mw \cup {Out(s, id)} ELSE mw]

\* the params table createOscillator builds.  The setValueAtTime(v,
\* currentTime) it issues on the fresh gain and frequency handles is taken
\* as their value from creation on.
OscTable(type, freq, gain) ==
  [p \in OscParams(type) |->
     CASE p = "gain" -> Audio(gain)
       [] p = "frequency" ->
            IF type = "noise" THEN Literal(0)
            ELSE IF type = "sample-hold" THEN Literal(freq)
            ELSE Audio(freq)
       [] OTHER -> Audio(0)]

\* what a noise generator plays when its frequency holder reads morph: the
\* one looped buffer createNoiseBuffer fills with uniform random samples,
\* through no mixing gains; the holder is read by nothing.  In thousandths.
NoiseMix(morph) == [brown |-> 0, pink |-> 0, white |-> 1000]

\* the ends of the range the application drives frequency over
MorphLow == 0
MorphHigh == 2000000

\* the unbounded voice createOscillator starts: an oscillator or looped
\* buffer source ("main"), or the script processor of sample-hold ("step")
MainVoice(type) == IF type = "sample-hold" THEN "step" ELSE "main"

createOscillatorOn(s, id, type, freq, gain, isAudible) ==
  LET s0 == initOn(s) IN
  IF ~s0.ctx THEN s0
  ELSE LET g == s0.gen[id] + 1
           s1 == [s0 EXCEPT
                    !.gen[id] = g,
                    !.voices = @ \cup {<<<<id, g>>, MainVoice(type)>>},
                    !.mainWires = @ \cup {<<id, g>>},
                    !.params[id] = OscTable(type, freq, gain),
                    !.shapers[id] = NoShaper,
                    !.holds[id] = NoHold,
                    !.nodes[id] =
                       [type |-> type, input |-> FALSE, inst |-> g,
                        modGains |-> NoMods,
                        outgoingSignalConnections |-> {},
                        isAudiblePreference |-> isAudible]]
       IN updateAudibleOn(s1, id, isAudible)

\* extraNodes.lfo: the subtypes that start an LFO of their own
HasLfo(type) == type \in {"phaser", "chorus", "tremolo"}

\* the params table createEffect builds
FxTable(type) == [p \in FxParams(type) |-> Audio(FxDefault(type, p))]

createEffectOn(s, id, type) ==
  LET s0 == initOn(s) IN
  IF ~s0.ctx THEN s0
  ELSE LET g == s0.gen[id] + 1
       IN [s0 EXCEPT
             !.gen[id] = g,
             !.params[id] = FxTable(type),
             !.shapers[id] = FxShaper(type),
             !.holds[id] = NoHold,
             !.voices = IF HasLfo(type) THEN @ \cup {<<<<id, g>>, "lfo">>}
                        ELSE @,
             !.nodes[id] =
                [type |-> type, input |-> TRUE, inst |-> g,
                 modGains |-> NoMods,
                 outgoingSignalConnections |-> {},
                 isAudiblePreference |-> TRUE]]

\* 'stop' in node.main: oscillators and buffer sources can be stopped, the
\* script processor of sample-hold and the input unit of an effect cannot
MainStops(n) == ~n.input /\ n.type # "sample-hold"

\* the two stop() calls of removeNode, the LFO one shared by updateEffectType
StopLfo(s, id) == [s EXCEPT !.voices = @ \ {<<Out(s, id), "lfo">>}]

StopMain(s, id) ==
  IF MainStops(s.nodes[id])
  THEN [s EXCEPT !.voices = @ \ {<<Out(s, id), "main">>}]
  ELSE s

\* AudioNode.disconnect() on an output terminal: every wire leaving it
DisconnectAll(s, o) ==
  [s EXCEPT
     !.masterWires = @ \ {o},
     !.audioWires = {w \in @ : w[1] # o},
     !.elems = [e \in DOMAIN @ |-> [@[e] EXCEPT !.srcs = @ \ {o}]]]

\* typeof currentParams.x?.value === 'number' ? currentParams.x.value : d
ValueOr(p, d) == IF p.kind = "none" THEN d ELSE p.value

updateOscTypeOn(s, id, type) ==
  IF ~Has(s, id) \/ ~s.ctx THEN s
  ELSE LET node == s.nodes[id]
           currentFreq == ValueOr(Entry(s.params[id], "frequency"), FallbackFreq)
           currentGain == ValueOr(Entry(s.params[id], "gain"), FallbackGain)
           s0 == StopMain([s EXCEPT !.mainWires = @ \ {Out(s, id)}], id)
           s1 == createOscillatorOn(s0, id, type, currentFreq, currentGain,
                                    node.isAudiblePreference)
           new == Out(s1, id)
           moved == {node.modGains[t] : t \in Ids} \ {0}
           s2 == [s1 EXCEPT
                    !.nodes[id].modGains = node.modGains,
                    !.elems = [e \in DOMAIN @ |->
                                 IF e \in moved
                                 THEN [@[e] EXCEPT !.srcs = @ \cup {new}]
                                 ELSE @[e]]]
           tgts == {t \in node.outgoingSignalConnections :
                      Has(s2, t) /\ s2.nodes[t].input}
       IN [s2 EXCEPT
             !.nodes[id].outgoingSignalConnections =
                node.outgoingSignalConnections,
             !.audioWires = @ \cup {<<new, Out(s2, t)>> : t \in tgts}]

updateEffectTypeOn(s, id, type) ==
  IF ~Has(s, id) THEN s
  ELSE createEffectOn(StopLfo(DisconnectAll(s, Out(s, id)), id), id, type)

\* the test as it would be without instanceof: any frequency entry passes
HasFrequencyEntry(n) == "frequency" \in Params(n)

\* to.params.frequency && to.params.frequency instanceof AudioParam
HasFrequencyParam(n) == IsAudioParam(n, "frequency")

\* connectNodes as it would be if the frequency-modulation branch were taken
\* for non-audible sources only
connectNodesOnAudibleOnly(s, fromId, toId) ==
  IF ~Has(s, fromId) \/ ~Has(s, toId) \/ ~s.ctx THEN s
  ELSE LET to == s.nodes[toId] IN
    IF to.input
    THEN LET s1 == [s EXCEPT
                      !.nodes[fromId].outgoingSignalConnections = @ \cup {toId},
                      !.masterWires = @ \ {Out(s, fromId)},
                      !.audioWires = @ \cup {<<Out(s, fromId), Out(s, toId)>>}]
         IN updateAudibleOn(s1, toId, to.isAudiblePreference)
    ELSE IF HasFrequencyParam(to) /\ ~s.nodes[fromId].isAudiblePreference
    THEN LET modGain == [srcs |-> {Out(s, fromId)}, dst |-> Out(s, toId),
                         param |-> "frequency", gain |-> ModDepth, out |-> TRUE]
         IN [s EXCEPT
               !.elems = Append(@, modGain),
               !.nodes[fromId].modGains[toId] = Len(s.elems) + 1]
    ELSE s

\* connectNodes as it would be if it wired an audible target to the master
\* whether or not the target has outgoing edges
connectNodesOnLinkingTarget(s, fromId, toId) ==
  IF ~Has(s, fromId) \/ ~Has(s, toId) \/ ~s.ctx THEN s
  ELSE LET to == s.nodes[toId] IN
    IF to.input
    THEN [s EXCEPT
            !.nodes[fromId].outgoingSignalConnections = @ \cup {toId},
            !.masterWires =
               IF to.isAudiblePreference
               THEN (@ \ {Out(s, fromId)}) \cup {Out(s, toId)}
               ELSE @ \ {Out(s, fromId), Out(s, toId)},
            !.audioWires = @ \cup {<<Out(s, fromId), Out(s, toId)>>}]
    ELSE IF HasFrequencyParam(to)
    THEN LET modGain == [srcs |-> {Out(s, fromId)}, dst |-> Out(s, toId),
                         param |-> "frequency", gain |-> ModDepth, out |-> TRUE]
         IN [s EXCEPT
               !.elems = Append(@, modGain),
               !.nodes[fromId].modGains[toId] = Len(s.elems) + 1]
    ELSE s

\* connectNodes as it would be if it re-derived the master wiring of every
\* registered node from its flag and outgoing set after connecting
connectNodesOnPropagating(s, fromId, toId) ==
  IF ~Has(s, fromId) \/ ~Has(s, toId) \/ ~s.ctx THEN s
  ELSE LET to == s.nodes[toId]
           s2 == IF to.input
                 THEN [s EXCEPT
                         !.nodes[fromId].outgoingSignalConnections = @ \cup {toId},
                         !.masterWires = @ \ {Out(s, fromId)},
                         !.audioWires = @ \cup {<<Out(s, fromId), Out(s, toId)>>}]
                 ELSE IF HasFrequencyParam(to)
                 THEN [s EXCEPT
                         !.elems = Append(@, [srcs |-> {Out(s, fromId)},
                                              dst |-> Out(s, toId),
                                              param |-> "frequency",
                                              gain |-> ModDepth, out |-> TRUE]),
                         !.nodes[fromId].modGains[toId] = Len(s.elems) + 1]
                 ELSE s
           all[k \in 0..MaxIds] ==
             IF k = 0 THEN s2
             ELSE IF Has(s2, k)
             THEN updateAudibleOn(all[k - 1], k, s2.nodes[k].isAudiblePreference)
             ELSE all[k - 1]
       IN all[MaxIds]

\* connectNodes as it would be if the frequency-modulation branch took the
\* source off the master gain
connectNodesOnUnlinking(s, fromId, toId) ==
  IF ~Has(s, fromId) \/ ~Has(s, toId) \/ ~s.ctx THEN s
  ELSE LET to == s.nodes[toId] IN
    IF to.input
    THEN LET s1 == [s EXCEPT
                      !.nodes[fromId].outgoingSignalConnections = @ \cup {toId},
                      !.masterWires = @ \ {Out(s, fromId)},
                      !.audioWires = @ \cup {<<Out(s, fromId), Out(s, toId)>>}]
         IN updateAudibleOn(s1, toId, to.isAudiblePreference)
    ELSE IF HasFrequencyParam(to)
    THEN LET modGain == [srcs |-> {Out(s, fromId)}, dst |-> Out(s, toId),
                         param |-> "frequency", gain |-> ModDepth, out |-> TRUE]
         IN [s EXCEPT
               !.elems = Append(@, modGain),
               !.nodes[fromId].modGains[toId] = Len(s.elems) + 1,
               !.masterWires = @ \ {Out(s, fromId)}]
    ELSE s

connectNodesOn(s, fromId, toId) ==
  IF ~Has(s, fromId) \/ ~Has(s, toId) \/ ~s.ctx THEN s
  ELSE LET to == s.nodes[toId] IN
    IF to.input
    THEN LET s1 == [s EXCEPT
                      !.nodes[fromId].outgoingSignalConnections = @ \cup {toId},
                      !.masterWires = @ \ {Out(s, fromId)},
                      !.audioWires = @ \cup {<<Out(s, fromId), Out(s, toId)>>}]
         IN updateAudibleOn(s1, toId, to.isAudiblePreference)
    ELSE IF HasFrequencyParam(to)
    THEN LET modGain == [srcs |-> {Out(s, fromId)}, dst |-> Out(s, toId),
                         param |-> "frequency", gain |-> ModDepth, out |-> TRUE]
         IN [s EXCEPT
               !.elems = Append(@, modGain),
               !.nodes[fromId].modGains[toId] = Len(s.elems) + 1]
    ELSE s

disconnectNodesOn(s, fromId, toId) ==
  IF ~Has(s, fromId) \/ ~Has(s, toId) THEN s
  ELSE LET from == s.nodes[fromId]
           to == s.nodes[toId] IN
    IF to.input
    THEN LET s1 == [s EXCEPT
                      !.nodes[fromId].outgoingSignalConnections = @ \ {toId},
                      !.audioWires = @ \ {<<Out(s, fromId), Out(s, toId)>>}]
         IN updateAudibleOn(s1, fromId, from.isAudiblePreference)
    ELSE LET modGain == from.modGains[toId] IN
      IF modGain = 0 THEN s
      ELSE LET \* from.output.disconnect(modGain) throws when there is no
               \* such wire; the catch then skips modGain.disconnect()
               wired == Out(s, fromId) \in s.elems[modGain].srcs
           IN [s EXCEPT
                 !.elems[modGain] =
                    IF wired
                    THEN [@ EXCEPT !.srcs = @ \ {Out(s, fromId)}, !.out = FALSE]
                    ELSE @,
                 !.nodes[fromId].modGains[toId] = 0]

removeNodeOn(s, id) ==
  IF ~Has(s, id) THEN s
  ELSE [StopMain(StopLfo(DisconnectAll(s, Out(s, id)), id), id)
          EXCEPT !.nodes[id] = NoNode,
                 !.params[id] = NoParams,
                 !.shapers[id] = NoShaper,
                 !.holds[id] = NoHold]

\* updateParam as it would be if it assigned an automatable handle's value
\* in place of scheduling the approach
updateParamOnImmediate(s, id, paramName, value) ==
  IF ~Has(s, id) THEN s
  ELSE IF paramName = "distortionCurve"
  THEN IF s.shapers[id].curve # "none"
       THEN [s EXCEPT !.shapers[id] = [curve |-> "distortion", amount |-> value]]
       ELSE s
  ELSE IF paramName = "bitCurve"
  THEN IF s.shapers[id].curve # "none"
       THEN [s EXCEPT !.shapers[id] = [curve |-> "bitcrush", amount |-> value]]
       ELSE s
  ELSE IF Entry(s.params[id], paramName).kind = "none" THEN s
  ELSE [s EXCEPT !.params[id][paramName].value = value]

\* updateParam as it would be without the test for a waveshaper
updateParamOnAnyShaper(s, id, paramName, value) ==
  IF ~Has(s, id) THEN s
  ELSE IF paramName = "distortionCurve"
  THEN [s EXCEPT !.shapers[id] = [curve |-> "distortion", amount |-> value]]
  ELSE IF paramName = "bitCurve"
  THEN [s EXCEPT !.shapers[id] = [curve |-> "bitcrush", amount |-> value]]
  ELSE LET param == Entry(s.params[id], paramName) IN
    CASE param.kind = "audio" ->
           [s EXCEPT !.params[id][paramName] = setTargetAtTime(@, value, s.now)]
      [] param.kind = "literal" ->
           [s EXCEPT !.params[id][paramName].value = value]
      [] OTHER -> s

updateParamOn(s, id, paramName, value) ==
  IF ~Has(s, id) THEN s
  ELSE IF paramName = "distortionCurve"
  THEN IF s.shapers[id].curve # "none"
       THEN [s EXCEPT !.shapers[id] = [curve |-> "distortion", amount |-> value]]
       ELSE s
  ELSE IF paramName = "bitCurve"
  THEN IF s.shapers[id].curve # "none"
       THEN [s EXCEPT !.shapers[id] = [curve |-> "bitcrush", amount |-> value]]
       ELSE s
  ELSE LET param == Entry(s.params[id], paramName) IN
    CASE param.kind = "audio" ->
           [s EXCEPT !.params[id][paramName] = setTargetAtTime(@, value, s.now)]
      [] param.kind = "literal" ->
           [s EXCEPT !.params[id][paramName].value = value]
      [] OTHER -> s

\* the two voices of the spark transient, each started with its stop time
SparkVoices(t) ==
  << [voice |-> "noise", start |-> t, stop |-> t + VoiceLife],
     [voice |-> "ping", start |-> t, stop |-> t + VoiceLife] >>

\* 1. spatial transient sound
sparkTransientsOn(s, settings) ==
  IF settings.sparkTransients
  THEN [s EXCEPT !.sparks = @ \o SparkVoices(s.now)]
  ELSE s

\* the tone spike as it would be without its second setTargetAtTime
toneSpikeOnNoReturn(s, id, velocityY, settings) ==
  IF settings.toneSpike /\ Entry(s.params[id], "detune").kind = "audio"
  THEN [s EXCEPT !.params[id]["detune"] =
          setTargetAtTime(cancelScheduledValues(@, s.now),
                          (0 - velocityY) * CentsPerVelocity, s.now)]
  ELSE s

\* 2. molecule disturbance: the detune excursion and its return
toneSpikeOn(s, id, velocityY, settings) ==
  IF settings.toneSpike /\ Entry(s.params[id], "detune").kind = "audio"
  THEN [s EXCEPT !.params[id]["detune"] =
          setTargetAtTime(
            setTargetAtTime(cancelScheduledValues(@, s.now),
                            (0 - velocityY) * CentsPerVelocity, s.now),
            0, s.now + DetuneReturn)]
  ELSE s

\* the cutoff excursion and its return to the value read at the call
paramFlutterOn(s, id, velocityY, settings) ==
  IF settings.paramFlutter /\ Entry(s.params[id], "cutoff").kind = "audio"
  THEN LET base == s.params[id]["cutoff"].value
           isFalling == velocityY > 0
           shift == IF isFalling THEN 0 - ((base * 4) \div 10)
                    ELSE (base * 6) \div 10
       IN [s EXCEPT !.params[id]["cutoff"] =
             setTargetAtTime(
               setTargetAtTime(cancelScheduledValues(@, s.now),
                               base + shift, s.now),
               base, s.now + CutoffReturn)]
  ELSE s

\* triggerDisturbance as it would be if the ping were started without a
\* stop time (a voice with stop < 0 never stops)
triggerDisturbanceOnNoStop(s, id, velocityY, pan, settings) ==
  IF ~Has(s, id) \/ ~s.ctx THEN s
  ELSE LET s1 == IF settings.sparkTransients
                 THEN [s EXCEPT !.sparks = @ \o
                         << SparkVoices(s.now)[1],
                            [voice |-> "ping", start |-> s.now, stop |-> -1] >>]
                 ELSE s
       IN paramFlutterOn(toneSpikeOn(s1, id, velocityY, settings),
                         id, velocityY, settings)

\* triggerDisturbance as it would be if it made the disturbed node audible
triggerDisturbanceOnAudible(s, id, velocityY, pan, settings) ==
  IF ~Has(s, id) \/ ~s.ctx THEN s
  ELSE updateAudibleOn(
         paramFlutterOn(
           toneSpikeOn(sparkTransientsOn(s, settings), id, velocityY, settings),
           id, velocityY, settings),
         id, TRUE)

triggerDisturbanceOn(s, id, velocityY, pan, settings) ==
  IF ~Has(s, id) \/ ~s.ctx THEN s
  ELSE paramFlutterOn(
         toneSpikeOn(sparkTransientsOn(s, settings), id, velocityY, settings),
         id, velocityY, settings)

\* ---- the host's clock -----------------------------------------------------
\* the times at which something scheduled is due
DueTimes(s) ==
  UNION {UNION {{s.params[i][p].events[k].t : k \in DOMAIN s.params[i][p].events} :
                p \in DOMAIN s.params[i]} :
         i \in Ids}
    \cup {s.sparks[k].stop : k \in {j \in DOMAIN s.sparks : s.sparks[j].stop >= 0}}
    \cup {s.masterGain.events[k].t : k \in DOMAIN s.masterGain.events}

Min(S) == CHOOSE x \in S : \A y \in S : x <= y

\* a voice stops when rendering reaches the stop time it was given
Stopped(v, t) == v.stop >= 0 /\ v.stop <= t

StillRunning(sp, t) ==
  LET keep == {k \in DOMAIN sp : ~Stopped(sp[k], t)}
      F[k \in 0..Len(sp)] ==
        IF k = 0 THEN <<>>
        ELSE IF k \in keep THEN Append(F[k - 1], sp[k]) ELSE F[k - 1]
  IN F[Len(sp)]

\* the host renders up to the next due time: the events due by then take
\* effect and the voices whose stop time has come stop
renderTo(s, t) ==
  [s EXCEPT
     !.now = t,
     !.params = [i \in Ids |->
                   [p \in DOMAIN s.params[i] |-> Rendered(s.params[i][p], t)]],
     !.masterGain = Rendered(@, t),
     !.sparks = StillRunning(@, t)]

renderOn(s) ==
  IF DueTimes(s) = {} THEN s
  ELSE LET d == Min(DueTimes(s))
       IN renderTo(s, IF d > s.now THEN d ELSE s.now)

\* ---- the script processor of sample-hold -----------------------------------
\* Math.max(0.1, freqObj.value), in thousandths of a hertz
MinRate == 100

\* one second, in milliseconds times thousandths of a hertz
PerSecond == 1000000

Larger(x, y) == IF x > y THEN x ELSE y

\* onaudioprocess as it would be if it drew a new value at every sample
onaudioprocessOnEverySample(s, id, random) ==
  IF ~Has(s, id) \/ s.nodes[id].input \/ s.nodes[id].type # "sample-hold"
     \/ Out(s, id) \notin s.mainWires
  THEN s
  ELSE [s EXCEPT !.holds[id] =
          [lastStepTime |-> s.now, currentValue |-> random]]

\* onaudioprocess of id's script processor for a sample at the current
\* time, random being what Math.random() * 2 - 1 gives; times are in
\* milliseconds, so currentTime - lastStepTime > 1 / rate reads
\* elapsed * rate > PerSecond
onaudioprocessOn(s, id, random) ==
  IF ~Has(s, id) \/ s.nodes[id].input \/ s.nodes[id].type # "sample-hold"
     \/ Out(s, id) \notin s.mainWires
  THEN s
  ELSE LET rate == Larger(MinRate, s.params[id]["frequency"].value)
       IN IF (s.now - s.holds[id].lastStepTime) * rate > PerSecond
          THEN [s EXCEPT !.holds[id] =
                  [lastStepTime |-> s.now, currentValue |-> random]]
          ELSE s

\* ---- derived notions ----------------------------------------------------
masterLinked(s, id) == Has(s, id) /\ Out(s, id) \in s.masterWires

\* ---- the state machine --------------------------------------------------
\* the edge targets of a node: the audio-chain targets it keeps in
\* outgoingSignalConnections and the targets it keeps a modGain for
EdgeTargets(s, id) ==
  s.nodes[id].outgoingSignalConnections
    \cup {t \in Ids : s.nodes[id].modGains[t] # 0}

NoPre ==
  [a |-> 0, b |-> 0, m |-> FALSE, fresh |-> FALSE, stale |-> FALSE,
   shook |-> FALSE, threw |-> FALSE]

CreateCalls ==
  {"init", "createOscillator", "createEffect", "addNode", "startAudio",
   "importPatch"}

\* one call: s is the state the call leaves, op the method's name.
\* pre remembers, until the next call, a connectNodes(a, b) that named two
\* registered nodes with no edge a -> b, and whether a was wired to the
\* master gain before it; a call other than init and the create calls
\* that named an id the registry does not hold (a is then that id); and a
\* triggerDisturbance(a, ...); and whether the call ended in an exception
\* thrown by init().
Step(s, op, a, b) ==
  /\ steps < limit
  /\ steps' = steps + 1
  /\ limit' = limit
  /\ params' = s.params
  /\ shapers' = s.shapers
  /\ sparks' = s.sparks
  /\ now' = s.now
  /\ host' = s.host
  /\ holds' = s.holds
  /\ masterGain' = s.masterGain
  /\ isMuted' = s.isMuted
  /\ ctx' = s.ctx
  /\ nodes' = s.nodes
  /\ gen' = s.gen
  /\ masterWires' = s.masterWires
  /\ audioWires' = s.audioWires
  /\ elems' = s.elems
  /\ mainWires' = s.mainWires
  /\ voices' = s.voices
  /\ pre' = IF op \in CreateCalls /\ initThrows(Cur)
            THEN [NoPre EXCEPT !.threw = TRUE]
            ELSE IF op = "connectNodes" /\ Has(Cur, a) /\ Has(Cur, b)
                  /\ b \notin EdgeTargets(Cur, a)
            THEN [NoPre EXCEPT !.a = a, !.b = b,
                               !.m = masterLinked(Cur, a), !.fresh = TRUE]
            ELSE IF op \notin CreateCalls \cup {"setMasterMute"}
                  /\ (~Has(Cur, a) \/ ~Has(Cur, b))
            THEN [NoPre EXCEPT !.a = IF Has(Cur, a) THEN b ELSE a,
                               !.stale = TRUE,
                               !.shook = (op = "triggerDisturbance")]
            ELSE IF op = "triggerDisturbance"
            THEN [NoPre EXCEPT !.a = a, !.shook = TRUE]
            ELSE NoPre

\* an engine call made directly: the application's connection list is not
\* involved
Set(s, op, a, b) ==
  /\ Step(s, op, a, b)
  /\ connections' = connections

\* the state after construction; limit is the number of calls a run makes,
\* h whether the host has an audio context to give
Boot(n, h) ==
  /\ limit = n
  /\ host = h
  /\ holds = [i \in Ids |-> NoHold]
  /\ masterGain = NoParam
  /\ isMuted = TRUE
  /\ ctx = FALSE
  /\ params = [i \in Ids |-> NoParams]
  /\ shapers = [i \in Ids |-> NoShaper]
  /\ sparks = <<>>
  /\ now = 0
  /\ connections = <<>>
  /\ nodes = [i \in Ids |-> NoNode]
  /\ gen = [i \in Ids |-> 0]
  /\ masterWires = {}
  /\ audioWires = {}
  /\ elems = <<>>
  /\ mainWires = {}
  /\ voices = {}
  /\ pre = NoPre
  /\ steps = 0

Start(n) == Boot(n, TRUE)

Init == Start(MaxSteps)

init ==
  /\ TRUE
  /\ Set(initOn(Cur), "init", 1, 1)

\* ids are opaque (uuids): up to renaming, they are first used in order
InOrder(id) == IF id = 1 THEN TRUE ELSE gen[id - 1] > 0

createOscillator(id, type, freq, gain, isAudible) ==
  /\ InOrder(id)
  /\ Set(createOscillatorOn(Cur, id, type, freq, gain, isAudible),
         "createOscillator", id, id)

createEffect(id, type) ==
  /\ InOrder(id)
  /\ Set(createEffectOn(Cur, id, type), "createEffect", id, id)

\* the application's updateNode picks the method by the node's kind; an id
\* that is not registered may reach either method
updateOscType(id, type) ==
  /\ Has(Cur, id) => ~nodes[id].input
  /\ Set(updateOscTypeOn(Cur, id, type), "updateOscType", id, id)

updateEffectType(id, type) ==
  /\ Has(Cur, id) => nodes[id].input
  /\ Set(updateEffectTypeOn(Cur, id, type), "updateEffectType", id, id)

updateAudible(id, isAudible) ==
  /\ id \in Ids
  /\ Set(updateAudibleOn(Cur, id, isAudible), "updateAudible", id, id)

connectNodes(fromId, toId) ==
  /\ fromId \in Ids /\ toId \in Ids
  /\ Set(connectNodesOn(Cur, fromId, toId), "connectNodes", fromId, toId)

disconnectNodes(fromId, toId) ==
  /\ fromId \in Ids /\ toId \in Ids
  /\ Set(disconnectNodesOn(Cur, fromId, toId), "disconnectNodes", fromId, toId)

removeNode(id) ==
  /\ id \in Ids
  /\ Set(removeNodeOn(Cur, id), "removeNode", id, id)

Next ==
  \/ init
  \/ \E id \in Ids, type \in OscIn, isAudible \in BOOLEAN :
        createOscillator(id, type, FreqIn, GainIn, isAudible)
  \/ \E id \in Ids, type \in FxIn : createEffect(id, type)
  \/ \E id \in Ids, type \in OscIn : updateOscType(id, type)
  \/ \E id \in Ids, type \in FxIn : updateEffectType(id, type)
  \/ \E id \in Ids, isAudible \in BOOLEAN : updateAudible(id, isAudible)
  \/ \E fromId \in Ids, toId \in Ids : connectNodes(fromId, toId)
  \/ \E fromId \in Ids, toId \in Ids : disconnectNodes(fromId, toId)
  \/ \E id \in Ids : removeNode(id)

Spec == Init /\ [][Next]_vars

\* ---- the engine with its parameters, disturbances and the host clock -----
\* The same calls on fewer ids, with every generator subtype that builds a
\* different params table, and with updateParam, triggerDisturbance and the
\* host's rendering.
EIds == 1..MaxNodes

OscAll == {"sine", "noise", "sample-hold"}

\* names updateParam is called with: entries of generators and of effects,
\* the two curve requests, and a name no table holds
ParamIn ==
  {"frequency", "gain", "cutoff", "distortionCurve", "bitCurve", "volume"}

ValueIn == 330000

VelocityIn == {-1, 1}

PanIn == 0

\* ImpactSettings: everything on, the parameter excursions alone, nothing
SettingsIn ==
  {[sparkTransients |-> TRUE, toneSpike |-> TRUE, paramFlutter |-> TRUE],
   [sparkTransients |-> FALSE, toneSpike |-> TRUE, paramFlutter |-> TRUE],
   [sparkTransients |-> FALSE, toneSpike |-> FALSE, paramFlutter |-> FALSE]}

updateParam(id, paramName, value) ==
  /\ id \in Ids
  /\ Set(updateParamOn(Cur, id, paramName, value), "updateParam", id, id)

triggerDisturbance(id, velocityY, pan, settings) ==
  /\ id \in Ids
  /\ Set(triggerDisturbanceOn(Cur, id, velocityY, pan, settings),
         "triggerDisturbance", id, id)

\* the host renders: no call of the engine is involved
render ==
  /\ DueTimes(Cur) # {}
  /\ params' = renderOn(Cur).params
  /\ sparks' = renderOn(Cur).sparks
  /\ now' = renderOn(Cur).now
  /\ masterGain' = renderOn(Cur).masterGain
  /\ UNCHANGED <<ctx, nodes, gen, masterWires, audioWires, elems, mainWires,
                 voices, shapers, host, holds, isMuted, connections, pre,
                 steps, limit>>

EngineNext ==
  \/ init
  \/ \E id \in EIds, type \in OscAll, isAudible \in BOOLEAN :
        createOscillator(id, type, FreqIn, GainIn, isAudible)
  \/ \E id \in EIds, type \in FxIn : createEffect(id, type)
  \/ \E id \in EIds, type \in OscAll : updateOscType(id, type)
  \/ \E id \in EIds, type \in FxIn : updateEffectType(id, type)
  \/ \E id \in EIds, isAudible \in BOOLEAN : updateAudible(id, isAudible)
  \/ \E id \in EIds, paramName \in ParamIn : updateParam(id, paramName, ValueIn)
  \/ \E fromId \in EIds, toId \in EIds : connectNodes(fromId, toId)
  \/ \E fromId \in EIds, toId \in EIds : disconnectNodes(fromId, toId)
  \/ \E id \in EIds : removeNode(id)
  \/ \E id \in EIds, velocityY \in VelocityIn, settings \in SettingsIn :
        triggerDisturbance(id, velocityY, PanIn, settings)
  \/ render

EngineInit == Start(MaxCalls)

EngineSpec == EngineInit /\ [][EngineNext]_vars

\* ---- disturbances and the host clock alone ---------------------------------
\* The calls that start, observe or outlive disturbance voices, with the
\* host bound to keep rendering.
DisturbNext ==
  \/ \E id \in EIds, type \in OscAll :
        createOscillator(id, type, FreqIn, GainIn, TRUE)
  \/ \E id \in EIds, type \in FxIn : createEffect(id, type)
  \/ \E id \in EIds : removeNode(id)
  \/ \E id \in EIds, velocityY \in VelocityIn, settings \in SettingsIn :
        triggerDisturbance(id, velocityY, PanIn, settings)
  \/ render

DisturbSpec == EngineInit /\ [][DisturbNext]_vars

\* the host keeps rendering
DisturbLive == DisturbSpec /\ WF_vars(render)

\* ---- the engine on a host that may have no audio context -----------------
\* The calls of the engine from a start where new AudioContext() fails, and
\* the host becoming able to give a context.
hostArrives ==
  /\ ~host
  /\ host' = TRUE
  /\ UNCHANGED <<ctx, nodes, gen, masterWires, audioWires, elems, mainWires,
                 voices, params, shapers, sparks, now, holds, masterGain,
                 isMuted, connections, pre, steps, limit>>

HostNext ==
  \/ init
  \/ \E id \in EIds, type \in OscIn, isAudible \in BOOLEAN :
        createOscillator(id, type, FreqIn, GainIn, isAudible)
  \/ \E id \in EIds, type \in FxIn : createEffect(id, type)
  \/ \E id \in EIds, type \in OscIn : updateOscType(id, type)
  \/ \E id \in EIds, type \in FxIn : updateEffectType(id, type)
  \/ \E id \in EIds, isAudible \in BOOLEAN : updateAudible(id, isAudible)
  \/ \E id \in EIds : updateParam(id, "frequency", ValueIn)
  \/ \E fromId \in EIds, toId \in EIds : connectNodes(fromId, toId)
  \/ \E fromId \in EIds, toId \in EIds : disconnectNodes(fromId, toId)
  \/ \E id \in EIds : removeNode(id)
  \/ \E id \in EIds, velocityY \in VelocityIn, settings \in SettingsIn :
        triggerDisturbance(id, velocityY, PanIn, settings)
  \/ hostArrives

HostInit == Boot(MaxCalls, FALSE)

HostSpec == HostInit /\ [][HostNext]_vars

\* ---- routing among three nodes ---------------------------------------------
\* The create calls and the two routing calls on every id, so that a
\* connection has bystanders.
RouteNext ==
  \/ \E id \in Ids, isAudible \in BOOLEAN :
        createOscillator(id, "sine", FreqIn, GainIn, isAudible)
  \/ \E id \in Ids : createEffect(id, "filter-lp")
  \/ \E fromId \in Ids, toId \in Ids : connectNodes(fromId, toId)
  \/ \E fromId \in Ids, toId \in Ids : disconnectNodes(fromId, toId)

RouteSpec == Init /\ [][RouteNext]_vars

\* ---- parameters and waveshapers --------------------------------------------
\* The create calls with the effects that own a waveshaper, connectNodes,
\* updateParam and the host's rendering.
FxShaped == {"filter-lp", "distortion", "bitcrusher"}

CurveIn == {"distortionCurve", "bitCurve"}

ParamNext ==
  \/ \E id \in EIds, type \in OscAll :
        createOscillator(id, type, FreqIn, GainIn, TRUE)
  \/ \E id \in EIds, type \in FxShaped : createEffect(id, type)
  \/ \E fromId \in EIds, toId \in EIds : connectNodes(fromId, toId)
  \/ \E id \in EIds, paramName \in ParamIn : updateParam(id, paramName, ValueIn)
  \/ render

ParamSpec == EngineInit /\ [][ParamNext]_vars

\* ---- the master gain ---------------------------------------------------------
\* init, setMasterMute, the create calls with their implicit init, and
\* connectNodes, with the host rendering the master gain's schedule.
setMasterMute(muted) ==
  /\ muted \in BOOLEAN
  /\ Set(setMasterMuteOn(Cur, muted), "setMasterMute", 1, 1)

MuteNext ==
  \/ init
  \/ \E muted \in BOOLEAN : setMasterMute(muted)
  \/ \E id \in EIds : createOscillator(id, "sine", FreqIn, GainIn, TRUE)
  \/ \E id \in EIds : createEffect(id, "filter-lp")
  \/ \E fromId \in EIds, toId \in EIds : connectNodes(fromId, toId)
  \/ render

MuteSpec == Init /\ [][MuteNext]_vars

\* ---- sample-hold under the clock -------------------------------------------
\* Sample-hold generators, their frequency holder, the clock advancing by
\* the host's rendering and the script processor's callback.
HoldFreqIn == {0, 50, 2000}

TickIn == {5000, 5300}

RandomIn == {-1000, 250}

\* the host renders d milliseconds on
tick(d) ==
  /\ now + d <= MaxTime
  /\ params' = renderTo(Cur, now + d).params
  /\ sparks' = renderTo(Cur, now + d).sparks
  /\ now' = now + d
  /\ masterGain' = renderTo(Cur, now + d).masterGain
  /\ UNCHANGED <<ctx, nodes, gen, masterWires, audioWires, elems, mainWires,
                 voices, shapers, host, holds, isMuted, connections, pre,
                 steps, limit>>

onaudioprocess(id, random) ==
  /\ Has(Cur, id) /\ nodes[id].type = "sample-hold"
  /\ holds' = onaudioprocessOn(Cur, id, random).holds
  /\ UNCHANGED <<ctx, nodes, gen, masterWires, audioWires, elems, mainWires,
                 voices, params, shapers, sparks, now, host, masterGain,
                 isMuted, connections, pre, steps, limit>>

HoldNext ==
  \/ \E id \in EIds, freq \in HoldFreqIn :
        createOscillator(id, "sample-hold", freq, GainIn, TRUE)
  \/ \E id \in EIds, value \in HoldFreqIn : updateParam(id, "frequency", value)
  \/ \E d \in TickIn : tick(d)
  \/ \E id \in EIds, random \in RandomIn : onaudioprocess(id, random)

HoldSpec == EngineInit /\ [][HoldNext]_vars

\* ---- the application ------------------------------------------------------
\* App.tsx drives the engine and keeps the list of connections it drew;
\* limit counts its handlers.  A node's id is a fresh uuid: the least id
\* never used.  The node list of the application holds the ids of the
\* registry: every handler below adds or drops an id in both.
Fresh == {i \in Ids : gen[i] = 0 /\ \A j \in Ids : gen[j] = 0 => i <= j}

\* subtypes the sidebar's selector is driven with
AppOscIn == {"square", "noise"}

\* size / 300 of the nodes added after the first (size 110)
NodeGain == 367

Touches(conn, id) == conn[1] = id \/ conn[2] = id

startAudioOn(s, id) ==
  createOscillatorOn(initOn(s), id, "sine", FreqIn, GainIn, TRUE)

addNodeOn(s, id, type) ==
  IF ~s.ctx THEN startAudioOn(s, id)
  ELSE IF type = "OSC"
  THEN createOscillatorOn(s, id, "sine", FreqIn, NodeGain, TRUE)
  ELSE createEffectOn(s, id, "filter-lp")

\* connections.forEach(conn => ... connectNodes(conn.fromId, conn.toId))
Reconnect(s, conns, id) ==
  LET after[k \in 0..Len(conns)] ==
        IF k = 0 THEN s
        ELSE IF Touches(conns[k], id)
        THEN connectNodesOn(after[k - 1], conns[k][1], conns[k][2])
        ELSE after[k - 1]
  IN after[Len(conns)]

\* the names applyFxParams sets for a subtype, in its order
FxApplied(type) ==
  CASE type \in {"filter-lp", "filter-hp", "filter-bp"} ->
         <<"cutoff", "resonance">>
    [] type = "delay" -> <<"time", "feedback">>
    [] type = "distortion" -> <<"amount", "distortionCurve">>
    [] type = "reverb" -> <<"diffusion">>
    [] type = "phaser" -> <<"speed", "depth">>
    [] type = "tremolo" -> <<"rate", "intensity">>
    [] type = "bitcrusher" -> <<"bitCurve">>
    [] type = "chorus" -> <<"speed", "intensity">>
    [] OTHER -> <<>>

\* the values come from the node's position on the canvas: one position
applyFxParamsOn(s, id, type) ==
  LET names == FxApplied(type)
      after[k \in 0..Len(names)] ==
        IF k = 0 THEN s
        ELSE updateParamOn(after[k - 1], id, names[k], ValueIn)
  IN after[Len(names)]

\* updates is a Partial<SynthNode>: a record of the fields the caller gives
Given(updates, field) == field \in DOMAIN updates

updateNodeOn(s, conns, id, updates) ==
  IF ~Has(s, id) THEN s
  ELSE LET isOsc == ~s.nodes[id].input
           s1 == IF Given(updates, "subType") /\ isOsc
                 THEN updateOscTypeOn(s, id, updates.subType)
                 ELSE s
           s2 == IF Given(updates, "subType") /\ ~isOsc
                 THEN applyFxParamsOn(
                        Reconnect(updateEffectTypeOn(s1, id, updates.subType),
                                  conns, id),
                        id, updates.subType)
                 ELSE s1
           s3 == IF Given(updates, "isAudible")
                 THEN updateAudibleOn(s2, id, updates.isAudible)
                 ELSE s2
           s4 == IF Given(updates, "size")
                 THEN updateParamOn(s3, id,
                                    IF isOsc THEN "gain" ELSE "intensity",
                                    updates.size)
                 ELSE s3
       IN IF Given(updates, "frequency")
          THEN updateParamOn(s4, id, "frequency", updates.frequency)
          ELSE s4

\* connections.forEach(c => ... disconnectNodes(c.fromId, c.toId)), then
\* removeNode(id)
deleteNodeOn(s, conns, id) ==
  LET after[k \in 0..Len(conns)] ==
        IF k = 0 THEN s
        ELSE IF Touches(conns[k], id)
        THEN disconnectNodesOn(after[k - 1], conns[k][1], conns[k][2])
        ELSE after[k - 1]
  IN removeNodeOn(after[Len(conns)], id)

addNode(type) ==
  /\ Fresh # {}
  /\ \E id \in Fresh :
       /\ Step(addNodeOn(Cur, id, type), "addNode", id, id)
       /\ connections' = connections

\* the sidebar offers the subtypes of the selected node's kind
updateNode(id, updates) ==
  /\ Has(Cur, id)
  /\ Given(updates, "subType") =>
       (updates.subType \in FxIn <=> nodes[id].input)
  /\ Step(updateNodeOn(Cur, connections, id, updates), "updateNode", id, id)
  /\ connections' = connections

\* handleMouseDown on toId while connecting from the selected node fromId
handleMouseDown(fromId, toId) ==
  /\ Has(Cur, fromId) /\ Has(Cur, toId) /\ fromId # toId
  /\ Step(connectNodesOn(Cur, fromId, toId), "handleMouseDown", fromId, toId)
  /\ connections' = Append(connections, <<fromId, toId>>)

deleteNode(id) ==
  /\ Has(Cur, id)
  /\ Step(deleteNodeOn(Cur, connections, id), "deleteNode", id, id)
  /\ connections' = SelectSeq(connections, LAMBDA c : ~Touches(c, id))

deleteConnection(k) ==
  /\ k \in DOMAIN connections
  /\ Step(disconnectNodesOn(Cur, connections[k][1], connections[k][2]),
          "deleteConnection", connections[k][1], connections[k][2])
  /\ connections' = [j \in 1..(Len(connections) - 1) |->
                       IF j < k THEN connections[j] ELSE connections[j + 1]]

UpdatesIn ==
  {[subType |-> t] : t \in AppOscIn \cup FxIn}
    \cup {[isAudible |-> b] : b \in BOOLEAN}
    \cup {[size |-> NodeGain], [frequency |-> ValueIn]}

AppNext ==
  \/ \E type \in {"OSC", "FX"} : addNode(type)
  \/ \E id \in Ids, updates \in UpdatesIn : updateNode(id, updates)
  \/ \E fromId \in Ids, toId \in Ids : handleMouseDown(fromId, toId)
  \/ \E id \in Ids : deleteNode(id)
  \/ \E k \in 1..MaxActs : deleteConnection(k)

AppInit == Start(MaxActs)

AppSpec == AppInit /\ [][AppNext]_vars

\* adding nodes, routing and deleting alone
LinkNext ==
  \/ \E type \in {"OSC", "FX"} : addNode(type)
  \/ \E fromId \in Ids, toId \in Ids : handleMouseDown(fromId, toId)
  \/ \E id \in Ids : deleteNode(id)
  \/ \E k \in 1..MaxActs : deleteConnection(k)

LinkSpec == AppInit /\ [][LinkNext]_vars

\* ---- patch documents ---------------------------------------------------------
\* The application that keeps its patch as a document: a list of nodes and a
\* list of connections, replayed into the engine when the audio starts and
\* when a file is imported.
DocNodeIn(id) ==
  {[id |-> id, type |-> "OSC", subType |-> "sine", isAudible |-> b] :
     b \in BOOLEAN}
    \cup {[id |-> id, type |-> "FX", subType |-> "filter-lp", isAudible |-> b] :
            b \in BOOLEAN}

DocNodesIn ==
  {<<a>> : a \in DocNodeIn(1) \cup DocNodeIn(2)}
    \cup {<<a, b>> : a \in DocNodeIn(1), b \in DocNodeIn(2)}
    \cup {<<b, a>> : a \in DocNodeIn(1), b \in DocNodeIn(2)}

DocConnsIn == {<<>>, <<<<1, 2>>>>, <<<<2, 1>>>>, <<<<1, 2>>, <<2, 1>>>>}

\* nodesToBuild.forEach(node => createOscillator | createEffect, updateAudible)
BuildNode(s, node) ==
  IF node.type = "OSC"
  THEN createOscillatorOn(s, node.id, node.subType, FreqIn, NodeGain,
                          node.isAudible)
  ELSE updateAudibleOn(createEffectOn(s, node.id, node.subType), node.id,
                       node.isAudible)

\* rebuildAudioEngine as it would be if it connected each node's
\* connections right after creating the node
rebuildAudioEngineOnNodeByNode(s, nodesToBuild, connsToBuild) ==
  LET linked(t, id) ==
        LET after[k \in 0..Len(connsToBuild)] ==
              IF k = 0 THEN t
              ELSE IF connsToBuild[k][1] = id
              THEN connectNodesOn(after[k - 1], connsToBuild[k][1],
                                  connsToBuild[k][2])
              ELSE after[k - 1]
        IN after[Len(connsToBuild)]
      built[k \in 0..Len(nodesToBuild)] ==
        IF k = 0 THEN s
        ELSE LET node == nodesToBuild[k]
                 made == BuildNode(built[k - 1], node)
                 set == IF node.type = "FX"
                        THEN applyFxParamsOn(made, node.id, node.subType)
                        ELSE made
             IN linked(set, node.id)
  IN built[Len(nodesToBuild)]

rebuildAudioEngineOn(s, nodesToBuild, connsToBuild) ==
  LET built[k \in 0..Len(nodesToBuild)] ==
        IF k = 0 THEN s ELSE BuildNode(built[k - 1], nodesToBuild[k])
      set[k \in 0..Len(nodesToBuild)] ==
        IF k = 0 THEN built[Len(nodesToBuild)]
        ELSE IF nodesToBuild[k].type = "FX"
        THEN applyFxParamsOn(set[k - 1], nodesToBuild[k].id,
                             nodesToBuild[k].subType)
        ELSE set[k - 1]
      linked[k \in 0..Len(connsToBuild)] ==
        IF k = 0 THEN set[Len(nodesToBuild)]
        ELSE connectNodesOn(linked[k - 1], connsToBuild[k][1],
                            connsToBuild[k][2])
  IN linked[Len(connsToBuild)]

\* nodes.forEach(n => audioEngine.removeNode(n.id)): the application's nodes
\* are the ones the last document registered
RemoveAll(s) ==
  LET gone[k \in 0..MaxIds] ==
        IF k = 0 THEN s
        ELSE IF k \in Ids THEN removeNodeOn(gone[k - 1], k)
        ELSE gone[k - 1]
  IN gone[MaxIds]

\* startAudio with the document the application was opened with
startAudio(docNodes, docConns) ==
  /\ ~ctx
  /\ Step(rebuildAudioEngineOn(initOn(Cur), docNodes, docConns),
          "startAudio", docNodes[1].id, docNodes[1].id)
  /\ connections' = docConns

\* the import handler's reader.onload, once the audio has started
importPatch(docNodes, docConns) ==
  /\ ctx
  /\ Step(rebuildAudioEngineOn(RemoveAll(Cur), docNodes, docConns),
          "importPatch", docNodes[1].id, docNodes[1].id)
  /\ connections' = docConns

PatchNext ==
  \/ \E docNodes \in DocNodesIn, docConns \in DocConnsIn :
        startAudio(docNodes, docConns)
  \/ \E docNodes \in DocNodesIn, docConns \in DocConnsIn :
        importPatch(docNodes, docConns)

PatchInit == Start(MaxLoads)

PatchSpec == PatchInit /\ [][PatchNext]_vars

TypeOK ==
  /\ ctx \in BOOLEAN
  /\ steps \in 0..limit
  /\ \A i \in Ids : gen[i] \in 0..steps /\ nodes[i].inst \in 0..gen[i]
  /\ Len(elems) <= steps

\* ---- vocabulary of the properties ----------------------------------------
\* a's current output terminal is wired to b's current input terminal
AudioWired(s, a, b) == <<Out(s, a), Out(s, b)>> \in s.audioWires

\* the gain elements that carry a's current output to a parameter of b's
\* current instance
LiveMods(s, a, b) ==
  {e \in DOMAIN s.elems :
     /\ Out(s, a) \in s.elems[e].srcs
     /\ s.elems[e].dst = Out(s, b)
     /\ s.elems[e].out}

\* live routing artifacts from a to b: the direct wire and the gain elements
Artifacts(s, a, b) ==
  (IF AudioWired(s, a, b) THEN 1 ELSE 0) + Cardinality(LiveMods(s, a, b))

\* the priority by which a destination's primary parameter is to be chosen
PrimaryOrder ==
  <<"cutoff", "time", "amount", "speed", "rate", "bits", "diffusion">>

PrimaryParam(n) ==
  LET present == {i \in 1..Len(PrimaryOrder) : PrimaryOrder[i] \in Params(n)}
  IN IF present # {}
     THEN PrimaryOrder[CHOOSE i \in present : \A j \in present : i <= j]
     ELSE IF HasFrequencyParam(n) THEN "frequency" ELSE "none"

\* ---- properties -----------------------------------------------------------

\* C1: in every state (so after every mutating call) each registered node is
\* wired to the master gain if and only if its audible flag is set and it
\* has no outgoing edge.
C1_MasterLinkIffAudibleIdle ==
  \A n \in Ids :
    Has(Cur, n) =>
      (masterLinked(Cur, n) <=>
         (nodes[n].isAudiblePreference /\ EdgeTargets(Cur, n) = {}))

\* C2: no registered node has its output wired to the master gain and to
\* another registered node's audio input at the same time.
C2_MasterXorChained ==
  \A n \in Ids, t \in Ids :
    (Has(Cur, n) /\ Has(Cur, t) /\ t # n) =>
      ~(masterLinked(Cur, n) /\ AudioWired(Cur, n, t))

\* C3: a generator whose audible flag is false never has its output wired
\* to an audio input.
C3_SilentGeneratorNeverAudio ==
  \A n \in Ids :
    (Has(Cur, n) /\ ~nodes[n].input /\ ~nodes[n].isAudiblePreference) =>
      \A w \in audioWires : w[1] # Out(Cur, n)

\* C4: an updateAudible(A, v) that changes the flag of a generator A keeps
\* A's edge targets and leaves every edge A -> B (B another registered node)
\* as a direct audio wire when v is true and B has an input, and as exactly
\* one gain element otherwise.
C4_ToggleRewiresEdges ==
  [][\A A \in Ids, v \in BOOLEAN :
       (/\ Has(Cur, A) /\ ~nodes[A].input
        /\ v # nodes[A].isAudiblePreference
        /\ updateAudible(A, v))
       => /\ EdgeTargets(Cur, A)' = EdgeTargets(Cur, A)
          /\ \A B \in EdgeTargets(Cur, A) \ {A} :
               Has(Cur, B) =>
                 IF v /\ nodes[B].input
                 THEN AudioWired(Cur, A, B)' /\ LiveMods(Cur, A, B)' = {}
                 ELSE /\ ~AudioWired(Cur, A, B)'
                      /\ Cardinality(LiveMods(Cur, A, B)') = 1]_vars

\* C5: connectNodes(A, B) on two distinct registered nodes with no edge,
\* followed at once by disconnectNodes(A, B), leaves A wired to the master
\* gain exactly if it was before the connect, and leaves no gain element
\* from A to B.
C5_ConnectDisconnectRestores ==
  [][\A A \in Ids, B \in Ids :
       (/\ pre.fresh /\ pre.a = A /\ pre.b = B /\ A # B
        /\ disconnectNodes(A, B))
       => /\ masterLinked(Cur, A)' = pre.m
          /\ LiveMods(Cur, A, B)' = {}]_vars

\* C6: between two distinct registered nodes that were each built once, the
\* number of live routing artifacts from A to B is one while A keeps B as an
\* edge target and zero otherwise, however often connectNodes and
\* disconnectNodes were called.
C6_OneArtifactPerEdge ==
  \A A \in Ids, B \in Ids :
    (A # B /\ Has(Cur, A) /\ Has(Cur, B) /\ gen[A] = 1 /\ gen[B] = 1) =>
      Artifacts(Cur, A, B) = (IF B \in EdgeTargets(Cur, A) THEN 1 ELSE 0)

\* C7: connectNodes(A, B) with A an audible generator and B a node with an
\* input wires A's output to B's input, leaves A off the master gain, and
\* leaves B on the master gain exactly when B is audible and has no outgoing
\* edge.
C7_AudibleSourceChains ==
  [][\A A \in Ids, B \in Ids :
       (/\ Has(Cur, A) /\ Has(Cur, B)
        /\ ~nodes[A].input /\ nodes[A].isAudiblePreference
        /\ nodes[B].input
        /\ connectNodes(A, B))
       => /\ AudioWired(Cur, A, B)'
          /\ ~masterLinked(Cur, A)'
          /\ masterLinked(Cur, B)' <=>
               (/\ nodes[B].isAudiblePreference'
                /\ EdgeTargets(Cur, B)' = {})]_vars

\* C8: connectNodes(A, B) with A not audible and B a node with an input
\* adds no audio wire and creates one gain element from A's output to B's
\* primary parameter.
C8_SilentSourceModulates ==
  [][\A A \in Ids, B \in Ids :
       (/\ Has(Cur, A) /\ Has(Cur, B)
        /\ ~nodes[A].isAudiblePreference
        /\ nodes[B].input
        /\ connectNodes(A, B))
       => /\ audioWires' = audioWires
          /\ Len(elems') = Len(elems) + 1
          /\ elems'[Len(elems')].srcs = {Out(Cur, A)}
          /\ elems'[Len(elems')].dst = Out(Cur, B)
          /\ elems'[Len(elems')].param = PrimaryParam(nodes[B])]_vars

\* C9: connectNodes(A, B) with B a node without an input whose frequency is
\* a host parameter creates exactly one gain element of depth 400 from A's
\* output to B's frequency, records it under B in A's modGains, touches no
\* other element and adds no audio wire, whatever A's audible flag.
C9_FrequencyModulation ==
  [][\A A \in Ids, B \in Ids :
       (/\ Has(Cur, A) /\ Has(Cur, B)
        /\ ~nodes[B].input /\ HasFrequencyParam(nodes[B])
        /\ connectNodes(A, B))
       => /\ Len(elems') = Len(elems) + 1
          /\ nodes'[A].modGains[B] = Len(elems')
          /\ elems'[Len(elems')] =
               [srcs |-> {Out(Cur, A)}, dst |-> Out(Cur, B),
                param |-> "frequency", gain |-> 400, out |-> TRUE]
          /\ \A k \in DOMAIN elems : elems'[k] = elems[k]
          /\ audioWires' = audioWires]_vars

\* C9 witness: a connectNodes call has just given a generator that is not
\* audible a depth-400 gain element into an oscillator's frequency.
C9_Witness ==
  /\ pre.fresh
  /\ ~nodes[pre.a].isAudiblePreference
  /\ ~nodes[pre.b].input /\ HasFrequencyParam(nodes[pre.b])
  /\ nodes[pre.a].modGains[pre.b] # 0
  /\ elems[nodes[pre.a].modGains[pre.b]].gain = 400
  /\ elems[nodes[pre.a].modGains[pre.b]].srcs = {Out(Cur, pre.a)}

\* C10: a connectNodes(A, B) that creates an edge between two distinct
\* nodes, of either kind, leaves B in A's outgoing set and A off the master
\* gain.
C10_EdgeRecordedInOutgoing ==
  [][\A A \in Ids, B \in Ids :
       (/\ A # B /\ Has(Cur, A) /\ Has(Cur, B)
        /\ (nodes[B].input \/ HasFrequencyParam(nodes[B]))
        /\ connectNodes(A, B))
       => /\ B \in nodes'[A].outgoingSignalConnections
          /\ ~masterLinked(Cur, A)']_vars

\* the wiring of n to the master gain agrees with its flag and its edges
Settled(s, n) ==
  masterLinked(s, n) <=>
    (s.nodes[n].isAudiblePreference /\ EdgeTargets(s, n) = {})

\* C11: removeNode(id) on a registered node leaves no remaining node with id
\* among its edge targets, and leaves every remaining node wired to the
\* master gain exactly when it is audible and has no edge target (stated
\* for the nodes whose wiring agreed with flag and edges before the call).
C11_RemoveSeversEdges ==
  [][\A id \in Ids :
       (Has(Cur, id) /\ removeNode(id))
       => \A n \in Ids \ {id} :
            (Has(Cur, n) /\ Settled(Cur, n)) =>
              /\ id \notin EdgeTargets(Cur, n)'
              /\ masterLinked(Cur, n)' <=>
                   (/\ nodes'[n].isAudiblePreference
                    /\ EdgeTargets(Cur, n)' = {})]_vars

\* what C12 and C19 require a call to leave alone: the registry with its
\* outgoing sets, modulation maps and audible flags, the gain elements, and
\* the wiring to the master gain and between nodes
Routing(s) ==
  [nodes |-> s.nodes, elems |-> s.elems, masterWires |-> s.masterWires,
   audioWires |-> s.audioWires, gen |-> s.gen]

\* C12: a call other than init and the create calls that names an id the
\* registry does not hold (never created, or removed) changes nothing of the
\* engine: registry, outgoing sets, gain elements, audible flags, master
\* wiring, parameters and voices are as before.  The methods return at
\* their first test, before any statement that could throw.
C12_AbsentIdNoOp ==
  [][(steps' = steps + 1 /\ pre'.stale) => Cur' = Cur]_vars

\* C12 witness: the last call named an id that had been created and then
\* removed from the registry.
C12_Witness ==
  /\ pre.stale
  /\ gen[pre.a] > 0 /\ ~Has(Cur, pre.a)

\* C13: disconnectNodes(A, B) on two distinct registered nodes with no edge
\* A -> B leaves every outgoing set and modulation map, every gain element and the
\* wiring to the master gain as they were.
C13_DisconnectWithoutEdge ==
  [][\A A \in Ids, B \in Ids :
       (/\ Has(Cur, A) /\ Has(Cur, B) /\ A # B
        /\ B \notin EdgeTargets(Cur, A)
        /\ disconnectNodes(A, B))
       => /\ nodes' = nodes
          /\ elems' = elems
          /\ masterWires' = masterWires]_vars

\* C14: connectNodes(A, B) with B a noise or sample-hold generator creates
\* no edge: the registry (A's outgoing set and modulation map included),
\* the gain elements, the audio wires and the wiring to the master gain
\* are unchanged.
C14_NoTargetNoEdge ==
  [][\A A \in Ids, B \in Ids :
       (/\ Has(Cur, A) /\ Has(Cur, B)
        /\ ~nodes[B].input /\ nodes[B].type \in {"noise", "sample-hold"}
        /\ connectNodes(A, B))
       => /\ nodes' = nodes
          /\ elems' = elems
          /\ audioWires' = audioWires
          /\ masterWires' = masterWires]_vars

\* C14 witness: the last call was connectNodes(A, B) on two distinct
\* registered nodes with B a sample-hold generator, and A has no edge to B.
C14_Witness ==
  /\ pre.fresh /\ pre.a # pre.b
  /\ nodes[pre.b].type = "sample-hold"
  /\ pre.b \notin EdgeTargets(Cur, pre.a)

\* C15: updateOscType(id, t) on a generator leaves the new instance with
\* the frequency and the gain the node's entries held before the call.
C15_SubtypeKeepsValues ==
  [][\A id \in Ids, type \in OscAll :
       (Has(Cur, id) /\ ~nodes[id].input /\ updateOscType(id, type))
       => /\ Entry(params'[id], "frequency").value =
               Entry(params[id], "frequency").value
          /\ Entry(params'[id], "gain").value = Entry(params[id], "gain").value]_vars

\* id's current instance feeds target T: by a direct wire, or by the gain
\* element id's modulation map holds for T when T's current instance
\* receives it
FeedsFromCurrent(s, id, T) ==
  \/ AudioWired(s, id, T)
  \/ /\ s.nodes[id].modGains[T] \in LiveMods(s, id, T)

\* C16: after the application's updateNode(id, {subType}) on a generator or
\* on an effect, id has the edge targets it had before the call, and the
\* new instance feeds every one of them that is registered and has an audio
\* input or a frequency handle to be fed through.
C16_SubtypeKeepsOutgoing ==
  [][\A id \in Ids, t \in AppOscIn \cup FxIn :
       (Has(Cur, id) /\ updateNode(id, [subType |-> t]))
       => /\ EdgeTargets(Cur, id)' = EdgeTargets(Cur, id)
          /\ \A T \in EdgeTargets(Cur, id) :
               (/\ Has(Cur, T)
                /\ nodes[T].input \/ HasFrequencyParam(nodes[T]))
               => FeedsFromCurrent(Cur, id, T)']_vars

\* C17: after the application's updateNode(id, {subType}) to a subtype that
\* has an audio input or a frequency handle, every registered node that had
\* an edge into id still feeds the new instance: by a gain element attached
\* to a parameter of the new instance or by a wire to its input.
C17_SubtypeKeepsIncoming ==
  [][\A id \in Ids, t \in (AppOscIn \cup FxIn) \ {"noise"} :
       (Has(Cur, id) /\ updateNode(id, [subType |-> t]))
       => \A S \in Ids \ {id} :
            (Has(Cur, S) /\ id \in EdgeTargets(Cur, S))
              => Artifacts(Cur, S, id)' >= 1]_vars

\* the unbounded voices that run: started, not stopped, and for the script
\* processor of sample-hold still holding a connection
Running(s) == {v \in s.voices : v[2] = "step" => v[1] \in s.mainWires}

\* C18: after removeNode(id), updateOscType(id, t) or updateEffectType(id, t)
\* on a registered node, no voice of the instance the call discarded runs.
C18_DiscardedVoicesStop ==
  [][\A id \in Ids :
       (/\ Has(Cur, id)
        /\ \/ removeNode(id)
           \/ \E type \in OscAll : updateOscType(id, type)
           \/ \E type \in FxIn : updateEffectType(id, type))
       => \A v \in Running(Cur)' : v[1] # Out(Cur, id)]_vars

\* C19: triggerDisturbance leaves the registry (outgoing sets, modulation
\* maps and audible flags), the gain elements and all wiring unchanged,
\* whatever its arguments; its voices are no registry entries.
C19_DisturbanceFrame ==
  [][(steps' = steps + 1 /\ pre'.shook) => Routing(Cur)' = Routing(Cur)]_vars

\* C19 witness: the last call was a triggerDisturbance on a registered node
\* that has an edge, and the voices it started run.
C19_Witness ==
  /\ pre.shook /\ ~pre.stale
  /\ sparks # <<>>
  /\ EdgeTargets(Cur, pre.a) # {}

\* C20: every disturbance voice carries the stop time it was given when it
\* was started, and with the host rendering on, from some point on no
\* disturbance voice runs.
C20_DisturbanceVoicesStop ==
  /\ [](\A k \in DOMAIN sparks : sparks[k].stop = sparks[k].start + VoiceLife)
  /\ <>[](sparks = <<>>)

\* C20 witness: rendering has reached the stop time of a disturbance: the
\* clock stands at a stop time and no disturbance voice runs.
C20_Witness ==
  /\ now >= VoiceLife
  /\ sparks = <<>>
\* the value a parameter rests at once its pending events are rendered
RestValue(p) ==
  IF p.events = <<>> THEN p.value ELSE p.events[Len(p.events)].v

\* C21: a triggerDisturbance on a registered node leaves on its detune
\* handle (toneSpike set) exactly an excursion to -velocityY * 200 at the
\* current time and a return to 0 after it, and on its cutoff handle
\* (paramFlutter set) exactly an excursion at the current time and, after
\* it, a return to the value cutoff had before the call; rendering changes
\* no rest value, and with the host rendering on every schedule is
\* eventually played out, detune resting at 0.
C21_ExcursionAndReturn ==
  /\ [][\A id \in EIds, velocityY \in VelocityIn, settings \in SettingsIn :
          (Has(Cur, id) /\ triggerDisturbance(id, velocityY, PanIn, settings))
          => /\ (/\ settings.toneSpike
                 /\ Entry(params[id], "detune").kind = "audio")
                => params'[id]["detune"].events =
                     << [t |-> now, v |-> (0 - velocityY) * CentsPerVelocity],
                        [t |-> now + DetuneReturn, v |-> 0] >>
             /\ (/\ settings.paramFlutter
                 /\ Entry(params[id], "cutoff").kind = "audio")
                => LET base == params[id]["cutoff"].value
                       ev == params'[id]["cutoff"].events
                   IN /\ Len(ev) = 2
                      /\ ev[1].t = now /\ ev[1].v # base
                      /\ ev[2].t > ev[1].t /\ ev[2].v = base]_vars
  /\ [][render => \A i \in Ids : \A p \in DOMAIN params[i] :
                    RestValue(params'[i][p]) = RestValue(params[i][p])]_vars
  /\ <>[](\A i \in Ids : \A p \in DOMAIN params[i] :
            /\ params[i][p].events = <<>>
            /\ p = "detune" => params[i][p].value = 0)

\* C21 witness: rendering stands inside a cutoff excursion: the handle reads
\* the excursion value and the return to the filter's previous cutoff is
\* the one event pending.
C21_Witness ==
  \E i \in Ids :
    LET p == Entry(params[i], "cutoff")
    IN /\ p.kind = "audio"
       /\ Len(p.events) = 1
       /\ p.events[1].v = FxDefault("filter-lp", "cutoff")
       /\ p.value # p.events[1].v

\* C22: after updateParam(id, name, v) on an automatable handle no event
\* scheduled before the call is pending for a later time: the approach to v
\* is the last event, and the handle rests at v.
C22_NewScheduleCancelsPending ==
  [][\A id \in EIds, name \in ParamIn :
       (/\ Has(Cur, id) /\ Entry(params[id], name).kind = "audio"
        /\ updateParam(id, name, ValueIn))
       => /\ \A k \in DOMAIN params'[id][name].events :
               params'[id][name].events[k].t <= now
          /\ RestValue(params'[id][name]) = ValueIn]_vars

\* C23: while the host has no audio context to give, init and the create
\* calls end without an exception and leave the engine uninitialised with
\* an empty registry, every other call changes nothing, and an init issued
\* once the host has a context initialises the engine.
C23_NoHostNoThrow ==
  [][/\ (steps' = steps + 1 /\ ~host /\ ~ctx)
          => /\ ~pre'.threw
             /\ Cur' = Cur
             /\ \A i \in Ids : ~Has(Cur, i)
     /\ (host /\ init) => ctx']_vars

\* C24: a noise generator whose frequency holder reads the low end of the
\* range plays brown noise alone, and one whose holder reads the high end
\* plays white noise alone.
C24_NoiseMorphEnds ==
  \A i \in Ids :
    (Has(Cur, i) /\ ~nodes[i].input /\ nodes[i].type = "noise") =>
      LET morph == Entry(params[i], "frequency").value
      IN /\ morph = MorphLow =>
              NoiseMix(morph) = [brown |-> 1000, pink |-> 0, white |-> 0]
         /\ morph = MorphHigh =>
              NoiseMix(morph) = [brown |-> 0, pink |-> 0, white |-> 1000]

\* C25: connectNodes(A, B) leaves every registered node other than A and B
\* as it was: its wiring to the master gain, its outgoing set, its
\* modulation map and the gain elements the map holds.
C25_ConnectFrame ==
  [][\A A \in Ids, B \in Ids :
       connectNodes(A, B)
       => \A C \in Ids \ {A, B} :
            Has(Cur, C) =>
              /\ masterLinked(Cur, C)' = masterLinked(Cur, C)
              /\ nodes'[C] = nodes[C]
              /\ \A t \in Ids :
                   nodes[C].modGains[t] # 0 =>
                     elems'[nodes[C].modGains[t]] = elems[nodes[C].modGains[t]]]_vars

\* C25 witness: the last call was a connectNodes(A, B) that made an edge,
\* with a third registered node wired to the master gain.
C25_Witness ==
  /\ pre.fresh /\ pre.a # pre.b
  /\ pre.b \in EdgeTargets(Cur, pre.a)
  /\ \E C \in Ids \ {pre.a, pre.b} : masterLinked(Cur, C)

\* C30: connectNodes(A, B) and disconnectNodes(A, B) with B an oscillator
\* generator leave the wiring to the master gain and every node's outgoing
\* set unchanged.
C30_ModulationEdgeKeepsMaster ==
  [][\A A \in Ids, B \in Ids :
       (/\ Has(Cur, A) /\ Has(Cur, B)
        /\ ~nodes[B].input /\ HasFrequencyParam(nodes[B])
        /\ connectNodes(A, B) \/ disconnectNodes(A, B))
       => /\ masterWires' = masterWires
          /\ \A n \in Ids :
               nodes'[n].outgoingSignalConnections =
                 nodes[n].outgoingSignalConnections]_vars

\* C30 witness: the last call was a connectNodes(A, B) that made a
\* modulation edge into an oscillator B, and A, wired to the master gain
\* before the call, still is.
C30_Witness ==
  /\ pre.fresh /\ pre.m
  /\ ~nodes[pre.b].input
  /\ nodes[pre.a].modGains[pre.b] # 0
  /\ masterLinked(Cur, pre.a)

\* C26: updateParam(id, name, v) on a registered node, for a name that is
\* no curve request: an automatable handle keeps the value it reads and
\* gains one event, the approach to v from the current time; a literal
\* holder reads v at once; with no entry of that name nothing changes.
C26_UpdateParamByKind ==
  [][\A id \in EIds, name \in ParamIn \ CurveIn :
       (Has(Cur, id) /\ updateParam(id, name, ValueIn))
       => LET p == Entry(params[id], name)
              q == Entry(params'[id], name)
          IN /\ p.kind = "audio" =>
                  /\ q.value = p.value
                  /\ Len(q.events) = Len(p.events) + 1
                  /\ \E k \in DOMAIN q.events :
                       /\ q.events[k] = [t |-> now, v |-> ValueIn]
                       /\ \A j \in DOMAIN p.events :
                            p.events[j] = q.events[IF j < k THEN j ELSE j + 1]
             /\ p.kind = "literal" => q = Literal(ValueIn)
             /\ p.kind = "none" => Cur' = Cur]_vars

\* C26 witness: an automatable handle still reads the value it was created
\* with while the approach to the value updateParam was given is pending.
C26_Witness ==
  \E i \in Ids : \E name \in DOMAIN params[i] :
    /\ params[i][name].kind = "audio"
    /\ params[i][name].events = << [t |-> 0, v |-> ValueIn] >>
    /\ params[i][name].value # ValueIn

\* C27: updateParam(id, name, v), for every id and name, leaves the
\* registry, the gain elements, all wiring, the voices and the clock as
\* they were; it changes no parameter entry but the named one of the named
\* node and no waveshaper but the named node's, a waveshaper only on a
\* curve request and a parameter entry only otherwise; and a curve request
\* on a node without a waveshaper changes nothing.
C27_UpdateParamFrame ==
  [][\A id \in EIds, name \in ParamIn :
       updateParam(id, name, ValueIn)
       => /\ Routing(Cur)' = Routing(Cur)
          /\ voices' = voices /\ mainWires' = mainWires
          /\ sparks' = sparks /\ now' = now /\ ctx' = ctx
          /\ \A i \in Ids :
               /\ DOMAIN params'[i] = DOMAIN params[i]
               /\ \A p \in DOMAIN params[i] :
                    (i # id \/ p # name) => params'[i][p] = params[i][p]
               /\ i # id => shapers'[i] = shapers[i]
          /\ name \in CurveIn => params' = params
          /\ name \notin CurveIn => shapers' = shapers
          /\ (name \in CurveIn /\ shapers[id].curve = "none") => Cur' = Cur]_vars

\* C27 witness: a curve request has regenerated the waveshaping table of a
\* registered effect.
C27_Witness ==
  \E i \in Ids :
    /\ Has(Cur, i)
    /\ shapers[i].curve # "none"
    /\ shapers[i].amount = ValueIn

\* the script processor of id has drawn a new value in this step
Stepped(id) ==
  /\ Has(Cur, id) /\ gen' = gen
  /\ holds'[id] # holds[id]

\* C29 (as claimed): a sample-hold generator draws a new value, within
\* [-1, 1], only when more than 1 / frequency seconds have passed since its
\* previous step, for every frequency: at frequency 0 never.
C29_StepsEveryPeriod ==
  [][\A id \in Ids :
       Stepped(id) =>
         LET f == Entry(params[id], "frequency").value
         IN /\ f > 0
            /\ (now - holds[id].lastStepTime) * f > PerSecond
            /\ holds'[id].currentValue \in -1000..1000]_vars

\* C29 (amended): a sample-hold generator draws a new value, within
\* [-1, 1], only when more than 1 / max(0.1, frequency) seconds have passed
\* since its previous step, and holds its value otherwise.
C29_StepsEveryClampedPeriod ==
  [][\A id \in Ids :
       Stepped(id) =>
         LET f == Entry(params[id], "frequency").value
         IN /\ (now - holds[id].lastStepTime) * Larger(100, f) > PerSecond
            /\ holds'[id].lastStepTime = now
            /\ holds'[id].currentValue \in -1000..1000]_vars

\* C29 witness: a sample-hold generator running at 2 Hz holds a value it
\* drew after its creation.
C29_Witness ==
  \E i \in Ids :
    /\ Has(Cur, i) /\ nodes[i].type = "sample-hold"
    /\ Entry(params[i], "frequency").value = 2000
    /\ holds[i].lastStepTime > 0
    /\ holds[i].lastStepTime < 10000
    /\ holds[i].currentValue # 0

\* C28: once a patch document has been replayed, every connection of the
\* document between two nodes of the document is an edge of the engine:
\* every node is created before the first connect, so none is dropped for
\* naming a node not created yet.
C28_ReplayCreatesBeforeConnecting ==
  ctx =>
    \A k \in DOMAIN connections :
      (Has(Cur, connections[k][1]) /\ Has(Cur, connections[k][2]))
        => connections[k][2] \in EdgeTargets(Cur, connections[k][1])

\* C28 witness: an imported document connects each of its two nodes to the
\* other, so one connection names the node created last, and the engine
\* holds both edges.
C28_Witness ==
  /\ ctx /\ steps = 2 /\ Len(connections) = 2
  /\ \A k \in DOMAIN connections :
       connections[k][2] \in EdgeTargets(Cur, connections[k][1])

\* the nodes reached from id by following outgoingSignalConnections
ChainReach(s, id) ==
  LET upTo[k \in 0..MaxIds] ==
        IF k = 0 THEN s.nodes[id].outgoingSignalConnections
        ELSE upTo[k - 1] \cup
             UNION {s.nodes[j].outgoingSignalConnections :
                      j \in {x \in upTo[k - 1] : Has(s, x)}}
  IN upTo[MaxIds]

\* C31: while every registered node is audible, each node with an outgoing
\* audio edge reaches, along audio edges, a node wired to the master: no
\* self-loop or cycle is chained only among its own members.
C31_ChainsReachMaster ==
  (\A i \in Ids : Has(Cur, i) => nodes[i].isAudiblePreference)
    => \A i \in Ids :
         (Has(Cur, i) /\ nodes[i].outgoingSignalConnections # {})
           => \E j \in ChainReach(Cur, i) : Has(Cur, j) /\ masterLinked(Cur, j)

\* the outgoing sets, the targets of the modulation maps and the nodes
\* wired to the master
WiringOf(s) ==
  [outgoing |-> [i \in Ids |-> s.nodes[i].outgoingSignalConnections],
   modulated |-> [i \in Ids |-> {t \in Ids : s.nodes[i].modGains[t] # 0}],
   master |-> {i \in Ids : masterLinked(s, i)}]

\* C32: from every reachable state, connectNodes(A, B) then
\* connectNodes(C, D) on registered nodes and distinct edges leaves the
\* outgoing sets, the modulation maps' targets and the master wiring that
\* connectNodes(C, D) then connectNodes(A, B) leaves, also when the edges
\* share a node or close a cycle.  The statement is symmetric in the two
\* edges, so each unordered pair of edges is taken once.
C32_ConnectsCommute ==
  \A A \in Ids, B \in Ids, C \in Ids, D \in Ids :
    (/\ A < C \/ (A = C /\ B < D)
     /\ Has(Cur, A) /\ Has(Cur, B) /\ Has(Cur, C) /\ Has(Cur, D))
    => WiringOf(connectNodesOn(connectNodesOn(Cur, A, B), C, D))
         = WiringOf(connectNodesOn(connectNodesOn(Cur, C, D), A, B))

\* C32 witness: two connects have closed a cycle between two nodes, made by
\* connectNodes just now.
C32_Witness ==
  /\ pre.fresh
  /\ \E A \in Ids, B \in Ids :
       /\ A # B /\ Has(Cur, A) /\ Has(Cur, B)
       /\ B \in nodes[A].outgoingSignalConnections
       /\ A \in nodes[B].outgoingSignalConnections

\* C33: updateOscType(id, t) on a generator and updateEffectType(id, t) on
\* an effect leave the node's audible preference as it was before the call.
C33_SubtypeKeepsAudible ==
  [][\A id \in Ids :
       (/\ Has(Cur, id)
        /\ \/ \E t \in OscIn : ~nodes[id].input /\ updateOscType(id, t)
           \/ \E t \in FxIn : nodes[id].input /\ updateEffectType(id, t))
       => nodes'[id].isAudiblePreference = nodes[id].isAudiblePreference]_vars

\* C34: with no updateParam issued, whatever triggerDisturbance calls with
\* paramFlutter were made and whenever, the cutoff of a registered node
\* rests, once its pending events are rendered, at the default it was
\* created with.
C34_FlutterKeepsRestingCutoff ==
  \A id \in Ids :
    (Has(Cur, id) /\ Entry(params[id], "cutoff").kind = "audio")
      => RestValue(params[id]["cutoff"]) = FxDefault(nodes[id].type, "cutoff")

\* instance o is wired into the graph: to the master, to an input, or into
\* a gain element
Wired(s, o) ==
  \/ o \in s.masterWires
  \/ \E w \in s.audioWires : w[1] = o \/ w[2] = o
  \/ \E e \in DOMAIN s.elems : o \in s.elems[e].srcs

\* C35: createOscillator or createEffect on an id that is registered leaves
\* the instance the id had before with no running voice and no wiring: one
\* instance per id is live.
C35_CreateReplacesInstance ==
  [][\A id \in Ids :
       (/\ Has(Cur, id)
        /\ \/ \E type \in OscIn, isAudible \in BOOLEAN :
                createOscillator(id, type, FreqIn, GainIn, isAudible)
           \/ \E type \in FxIn : createEffect(id, type))
       => /\ \A v \in Running(Cur)' : v[1] # Out(Cur, id)
          /\ ~Wired(Cur, Out(Cur, id))']_vars

\* C36: once the engine is initialised, init changes nothing of the engine,
\* and the init inside createOscillator and createEffect keeps the context,
\* the master gain with its schedule, the muted flag and every connection to
\* the master gain of the nodes that are not the one created.
C36_InitOnce ==
  [][ctx =>
       /\ init => Cur' = Cur
       /\ \A id \in EIds :
            (\/ createOscillator(id, "sine", FreqIn, GainIn, TRUE)
             \/ createEffect(id, "filter-lp"))
            => /\ ctx' /\ masterGain' = masterGain /\ isMuted' = isMuted
               /\ masterWires \subseteq masterWires'
               /\ audioWires' = audioWires /\ elems' = elems
               /\ \A j \in Ids \ {id} : nodes'[j] = nodes[j]]_vars

\* C36 witness: two nodes are registered, so a create call has run its init
\* on an initialised engine, and the master gain is on its way to or at the
\* unmuted level.
C36_Witness ==
  /\ ctx /\ Has(Cur, 1) /\ Has(Cur, 2)
  /\ ~isMuted /\ RestValue(masterGain) = 300

\* C37: while the engine is initialised, the master gain's target is 0 when
\* the muted flag is set and 0.3 when it is not.
C37_GainFollowsMuted ==
  ctx => RestValue(masterGain) = (IF isMuted THEN 0 ELSE 300)

\* C38: after the application's deleteNode(id) no registered node keeps id
\* among its edge targets, and every node that was recorded as a source of
\* a connection into id is wired to the master exactly when it is audible
\* and has no outgoing edge.
C38_DeleteSeversFirst ==
  [][\A id \in Ids :
       (Has(Cur, id) /\ deleteNode(id))
       => /\ \A j \in Ids \ {id} :
               Has(Cur, j)' => id \notin EdgeTargets(Cur, j)'
          /\ \A a \in Ids \ {id} :
               ((\E k \in DOMAIN connections : connections[k] = <<a, id>>)
                /\ Has(Cur, a)')
               => (masterLinked(Cur, a)' <=>
                     (nodes'[a].isAudiblePreference
                      /\ EdgeTargets(Cur, a)' = {}))]_vars

\* C39: under addNode, handleMouseDown in connecting mode, deleteConnection
\* and deleteNode, for every two registered nodes the engine holds exactly
\* one live routing artifact from A to B when the application records a
\* connection from A to B, and none when it records no such connection.
C39_ConnectionsMatchEngine ==
  \A A \in Ids, B \in Ids :
    (A # B /\ Has(Cur, A) /\ Has(Cur, B)) =>
      Artifacts(Cur, A, B) =
        (IF \E k \in DOMAIN connections : connections[k] = <<A, B>>
         THEN 1 ELSE 0)

====
